---- MODULE Spec2Model ----
(***************************************************************************)
(* The digital twin engine: the twin registry, one twin's state, the       *)
(* generators that mutate it, and the four background loops.               *)
(*                                                                         *)
(* Scalars in [0,1] are kept in hundredths (0.3 is 30), heart_rate in      *)
(* beats per minute, time in seconds.  A random.uniform(a, b) call is an   *)
(* input: every draw of one operation takes the position u of its range,   *)
(* u = -1 the low end, 0 the midpoint, 1 the high end.                     *)
(***************************************************************************)
EXTENDS Integers, Sequences, FiniteSets, TLC

VARIABLES
    now,        \* datetime.now(), in seconds
    advances,   \* how many times the clock has advanced
    twins,      \* DigitalTwinEngine.twins: twin_id -> DigitalTwin
    order,      \* insertion order of the dict self.twins
    engines,    \* the engine's component references are set (initialize ran)
    running,    \* DigitalTwinEngine.running
    phase,      \* "new", "initialized", "stopping", "stopped"
    task,       \* the four background tasks, by loop
    awaiting,   \* index of the task shutdown() is awaiting, 0 when none
    lastTick,   \* what the latest background tick did
    ret,        \* the latest API call and what it returned
    conv,       \* ConversationEngine state, one instance per call path
    reply,      \* what generate_response returned last, per call path
    monitor,    \* HealthMonitor state: health_alerts and the latest reading
    simulator,  \* BehaviorSimulator state: behavior_patterns
    call        \* the latest direct call of a component function

vars == <<now, advances, twins, order, engines, running, phase, task, awaiting, lastTick, ret,
          conv, reply, monitor, simulator, call>>
components == <<conv, reply, monitor, simulator, call>>

\* ---------------------------------------------------------------- bounds
MaxTwins == 2
MaxAdvances == 1
MaxLog == 2
MaxMessages == 2
MaxReadings == 2
MaxAlerts == 2
MaxPatterns == 5
MaxApplications == 2

\* ------------------------------------------------------------- constants
SecondsPerDay == 86400
NotNumber == -100000
DefaultTrait ==
    [openness |-> 60, conscientiousness |-> 70, extraversion |-> 50,
     agreeableness |-> 80, neuroticism |-> 30, emotional_stability |-> 70,
     creativity |-> 60, adaptability |-> 80, confidence |-> 70, empathy |-> 80]
TraitNames == DOMAIN DefaultTrait
DefaultHealth ==
    [heart_rate |-> 72, stress_level |-> 30, energy_level |-> 80,
     sleep_quality |-> 70, timestamp |-> 0]
HealthKeys == DOMAIN DefaultHealth
RangedHealthKeys == {"stress_level", "energy_level", "sleep_quality"}
Loops == <<"health", "personality", "behavior", "data">>
LoopNames == {Loops[i] : i \in 1..Len(Loops)}

\* --------------------------------------------------------------- helpers
EmptyDict == [k \in {} |-> 0]
None == [none |-> TRUE]
IsNumber(v) == v # NotNumber
Max(a, b) == IF a >= b THEN a ELSE b
Min(a, b) == IF a <= b THEN a ELSE b
Days(elapsed) == elapsed \div SecondsPerDay
Uniform(lo, hi, u) == IF u < 0 THEN lo ELSE IF u > 0 THEN hi ELSE (lo + hi) \div 2
Draws == {-1, 0, 1}
InvalidId == <<0, 0>>
Put(f, k, v) == [x \in DOMAIN f \cup {k} |-> IF x = k THEN v ELSE f[x]]
Remove(f, k) == [x \in DOMAIN f \ {k} |-> f[x]]
Without(s, k) == SelectSeq(s, LAMBDA x : x # k)

\* A section of an updates/config dict: missing, a mapping, or a value that
\* is no mapping (its .items() raises AttributeError).
Absent == [kind |-> "absent", val |-> EmptyDict]
Malformed == [kind |-> "malformed", val |-> EmptyDict]
Dict(f) == [kind |-> "dict", val |-> f]

\* ------------------------------------------------------------ one twin
\* setattr for every key the dataclass has; other keys are skipped.
_update_personality_traits(cur, d) ==
    [t \in TraitNames |-> IF t \in DOMAIN d THEN d[t] ELSE cur[t]]

_update_health_metrics(cur, d) ==
    [k \in HealthKeys |-> IF k \in DOMAIN d THEN d[k] ELSE cur[k]]

\* DigitalTwin.__init__
DigitalTwin(name, description, personality_profile, health_profile, visual_profile) ==
    [profile |-> [name |-> name, description |-> description],
     personality_traits |->
        IF DOMAIN personality_profile # {}
        THEN _update_personality_traits(DefaultTrait, personality_profile)
        ELSE DefaultTrait,
     health_metrics |->
        IF DOMAIN health_profile # {}
        THEN _update_health_metrics([DefaultHealth EXCEPT !.timestamp = now], health_profile)
        ELSE [DefaultHealth EXCEPT !.timestamp = now],
     visual_profile |-> visual_profile,
     has_engines |-> FALSE,
     behavior_patterns |-> <<>>,
     interaction_log |-> <<>>,
     conversation_history |-> <<>>,
     last_health_update |-> now,
     last_personality_update |-> now,
     last_behavior_update |-> now,
     is_active |-> TRUE,
     current_mood |-> "neutral",
     current_activity |-> "idle",
     energy_level |-> 80]

\* ------------------------------------------------------------ generators
\* dict.get(key, default) on a twin_state / pattern dict.
DictGet(d, key, default) == IF key \in DOMAIN d THEN d[key] ELSE default

\* hasattr(pattern, name): the patterns the generators build are dict
\* literals, which have keys and no attributes.
HasAttr(pattern, name) == pattern.kind = "object" /\ name \in DOMAIN pattern

PatternDict(pattern_type) == [kind |-> "dict", pattern_type |-> pattern_type]

\* PersonalityModel.generate_synthetic_profile: the generated traits sit
\* under the key "personality_traits"; the top-level "confidence" is the
\* confidence of the generation.
generate_synthetic_profile(u) ==
    [k \in {"personality_traits", "age", "gender", "occupation", "generated_at", "confidence"} |->
        IF k = "confidence" THEN Uniform(70, 95, u) ELSE 0]

\* HealthMonitor.generate_synthetic_baseline, for age = 25 (25 <= age < 50).
generate_synthetic_baseline(u) ==
    [k \in {"heart_rate", "stress_level", "energy_level", "sleep_quality", "age", "gender", "generated_at"} |->
        CASE k = "heart_rate" -> Uniform(70, 90, u)
          [] k = "stress_level" -> Uniform(10, 60, u)
          [] k = "energy_level" -> Uniform(60, 85, u)
          [] k = "sleep_quality" -> Uniform(50, 90, u)
          [] OTHER -> 0]

\* BehaviorSimulator.generate_synthetic_patterns with interests = []; a
\* comparison with a value that is no number raises, and [] is returned.
generate_synthetic_patterns(traits) ==
    IF ~IsNumber(traits.extraversion) \/ ~IsNumber(traits.conscientiousness)
    THEN <<>>
    ELSE LET social == IF traits.extraversion > 70
                       THEN <<PatternDict("social_interaction")>> ELSE <<>>
             work == IF traits.conscientiousness > 70
                     THEN <<PatternDict("work_habits")>> ELSE <<>>
             patterns == social \o work
         IN IF patterns = <<>> THEN <<PatternDict("adaptive_behavior")>> ELSE patterns

LastN(s, n) == IF Len(s) <= n THEN s ELSE SubSeq(s, Len(s) - n + 1, Len(s))

\* BehaviorSimulator.simulate_patterns: [raised, patterns]; on an exception
\* the except clause returns [].
simulate_patterns(traits, current_patterns, twin_state) ==
    LET recent == LastN(current_patterns, 3)
        variations == [i \in 1..Len(recent) |->
            PatternDict(IF HasAttr(recent[i], "pattern_type")
                        THEN recent[i].pattern_type ELSE "unknown")]
        energetic == IF DictGet(twin_state, "energy_level", 50) > 70
                     THEN <<PatternDict("high_energy_activity")>> ELSE <<>>
        social == IF traits.extraversion > 70
                  THEN <<PatternDict("social_engagement")>> ELSE <<>>
        new_patterns == variations \o energetic \o social
    IN IF ~IsNumber(traits.extraversion)
       THEN [raised |-> TRUE, patterns |-> <<>>]
       ELSE [raised |-> FALSE,
             patterns |-> IF new_patterns = <<>>
                          THEN <<PatternDict("adaptive_behavior")>> ELSE new_patterns]

Clamp(lo, hi, v) == Max(lo, Min(hi, v))

\* HealthMonitor.generate_synthetic_update: the dict it returns.
generate_synthetic_update(traits, elapsed, u) ==
    LET variation == Uniform(-10, 10, u)
        stress_modifier ==
            (IF traits.neuroticism > 70 THEN 10 ELSE 0)
            + (IF traits.emotional_stability < 30 THEN 10 ELSE 0)
    IN IF ~IsNumber(traits.neuroticism) \/ ~IsNumber(traits.emotional_stability)
       THEN [k \in {"error", "timestamp"} |-> IF k = "timestamp" THEN now ELSE 0]
       ELSE IF Days(elapsed) > 1
       THEN [k \in {"heart_rate", "stress_level", "energy_level", "sleep_quality",
                    "update_type", "update_reason", "timestamp"} |->
                CASE k = "heart_rate" -> Clamp(50, 120, 72 + Uniform(-5, 5, u) + variation \div 10)
                  [] k = "stress_level" -> Clamp(0, 100, 30 + stress_modifier + variation)
                  [] k = "energy_level" -> Clamp(0, 100, 80 + variation)
                  [] k = "sleep_quality" -> Clamp(0, 100, 70 + variation)
                  [] k = "timestamp" -> now
                  [] OTHER -> 0]
       ELSE [k \in {"heart_rate", "stress_level", "energy_level",
                    "update_type", "update_reason", "timestamp"} |->
                CASE k = "heart_rate" -> Clamp(50, 120, 72 + Uniform(-3, 3, u))
                  [] k = "stress_level" -> Clamp(0, 100, 30 + stress_modifier + Uniform(-5, 5, u))
                  [] k = "energy_level" -> Clamp(0, 100, 80 + Uniform(-10, 10, u))
                  [] k = "timestamp" -> now
                  [] OTHER -> 0]

\* An evolution that clamps every trait into [0, 1] on every call.
evolve_traits_clamping(current_traits, interaction_history, learning_history, elapsed, u) ==
    [t \in TraitNames |->
        IF IsNumber(current_traits[t]) THEN Clamp(0, 100, current_traits[t])
        ELSE current_traits[t]]

\* PersonalityModel.evolve_traits: the dict it returns; an exception in the
\* try block returns the traits it was given.
evolve_traits(current_traits, interaction_history, learning_history, elapsed, u) ==
    LET recent == LastN(interaction_history, 5)
        positive_count == Cardinality({i \in 1..Len(recent) : recent[i].outcome = "positive"})
        boosted == interaction_history # <<>> /\ 2 * positive_count > Len(recent)
        learned == learning_history # <<>>
        weekly == Days(elapsed) > 7
        raised == \/ boosted /\ (~IsNumber(current_traits.confidence)
                                 \/ ~IsNumber(current_traits.emotional_stability))
                  \/ learned /\ (~IsNumber(current_traits.openness)
                                 \/ ~IsNumber(current_traits.creativity))
                  \/ weekly /\ \E t \in TraitNames : ~IsNumber(current_traits[t])
        e1 == IF boosted
              THEN [current_traits EXCEPT !.confidence = Min(100, @ + 3),
                                          !.emotional_stability = Min(100, @ + 2)]
              ELSE current_traits
        e2 == IF learned
              THEN [e1 EXCEPT !.openness = Min(100, @ + 2), !.creativity = Min(100, @ + 2)]
              ELSE e1
        e3 == IF weekly
              THEN [t \in TraitNames |-> Clamp(0, 100, e2[t] + Uniform(-1, 1, u))]
              ELSE e2
    IN IF raised THEN current_traits ELSE e3

\* DigitalTwin._initialize_synthetic_data: each part runs only when its
\* component reference is set.
_initialize_synthetic_data(t, u) ==
    IF ~t.has_engines THEN t
    ELSE LET traits == _update_personality_traits(t.personality_traits,
                                                  generate_synthetic_profile(u))
             health == _update_health_metrics(t.health_metrics,
                                              generate_synthetic_baseline(u))
         IN [t EXCEPT !.personality_traits = traits,
                      !.health_metrics = health,
                      !.behavior_patterns = generate_synthetic_patterns(traits)]

\* DigitalTwin.initialize
initialize_twin(t, u) ==
    _initialize_synthetic_data([t EXCEPT !.has_engines = engines], u)

\* An update that never touches the profile.
update_skips_profile(t, updates) == [raised |-> FALSE, twin |-> t]

\* DigitalTwin.update: [raised, twin]; the sections are applied in order and
\* an exception leaves what was applied before it.
update(t, updates) ==
    LET p == updates.profile
        t1 == IF p.kind = "dict"
              THEN [t EXCEPT !.profile =
                        [k \in DOMAIN t.profile |->
                            IF k \in DOMAIN p.val THEN p.val[k] ELSE t.profile[k]]]
              ELSE t
        q == updates.personality
        t2 == IF q.kind = "dict"
              THEN [t1 EXCEPT !.personality_traits = _update_personality_traits(@, q.val),
                              !.last_personality_update = now]
              ELSE t1
        h == updates.health
        t3 == IF h.kind = "dict"
              THEN [t2 EXCEPT !.health_metrics = _update_health_metrics(@, h.val),
                              !.last_health_update = now]
              ELSE t2
        v == updates.visual
        t4 == IF v.kind = "dict"
              THEN [t3 EXCEPT !.visual_profile = @ \cup DOMAIN v.val]
              ELSE t3
    IN CASE p.kind = "malformed" -> [raised |-> TRUE, twin |-> t]
         [] q.kind = "malformed" -> [raised |-> TRUE, twin |-> t1]
         [] h.kind = "malformed" -> [raised |-> TRUE, twin |-> t2]
         [] v.kind = "malformed" -> [raised |-> TRUE, twin |-> t3]
         [] OTHER -> [raised |-> FALSE, twin |-> t4]

TwinState(t) == [mood |-> t.current_mood, activity |-> t.current_activity,
                 energy |-> t.energy_level]

\* A health update that stamps the time whether or not the monitor is set.
update_health_metrics_unguarded(t, u) ==
    IF ~t.has_engines THEN [t EXCEPT !.last_health_update = now]
    ELSE LET new_metrics == generate_synthetic_update(
                                t.personality_traits, now - t.last_health_update, u)
         IN [t EXCEPT !.health_metrics = _update_health_metrics(@, new_metrics),
                      !.last_health_update = now]

\* DigitalTwin.update_health_metrics
update_health_metrics(t, u) ==
    IF ~t.has_engines THEN t
    ELSE LET new_metrics == generate_synthetic_update(
                                t.personality_traits, now - t.last_health_update, u)
         IN [t EXCEPT !.health_metrics = _update_health_metrics(@, new_metrics),
                      !.last_health_update = now]

\* DigitalTwin.evolve_personality
evolve_personality(t, u) ==
    IF ~t.has_engines THEN t
    ELSE LET evolution == evolve_traits(t.personality_traits, t.interaction_log, <<>>,
                                        now - t.last_personality_update, u)
         IN [t EXCEPT !.personality_traits = _update_personality_traits(@, evolution),
                      !.last_personality_update = now]

\* DigitalTwin.simulate_behavior
simulate_behavior(t) ==
    IF ~t.has_engines THEN t
    ELSE [t EXCEPT !.behavior_patterns =
                       simulate_patterns(t.personality_traits, @, TwinState(t)).patterns,
                   !.last_behavior_update = now]

\* Whether the generator a self-update calls fails inside.
GeneratorFails(loop, t) ==
    /\ t.has_engines
    /\ CASE loop = "health" ->
                ~IsNumber(t.personality_traits.neuroticism)
                \/ ~IsNumber(t.personality_traits.emotional_stability)
         [] loop = "personality" ->
                Days(now - t.last_personality_update) > 7
                /\ \E n \in TraitNames : ~IsNumber(t.personality_traits[n])
         [] loop = "behavior" ->
                simulate_patterns(t.personality_traits, t.behavior_patterns, TwinState(t)).raised
         [] OTHER -> FALSE

\* interaction_data.get("type", "unknown")
InteractionType(data) == DictGet(data, "type", "unknown")

\* A dispatcher that rejects what it does not know.
_handle_interaction_strict(t, data) ==
    [raised |-> InteractionType(data) \notin
                    {"conversation", "health_query", "behavior_request", "visual_update"},
     twin |-> t, response |-> [message |-> "error"]]

\* DigitalTwin._handle_interaction and the handlers: [raised, twin, response].
\* _handle_behavior_request reads pattern.pattern_type of every pattern.
_handle_interaction(t, data) ==
    CASE InteractionType(data) = "conversation" ->
            [raised |-> FALSE,
             twin |-> IF t.has_engines
                      THEN [t EXCEPT !.conversation_history = Append(@, data.sender)]
                      ELSE t,
             response |-> IF t.has_engines
                          THEN [response |-> "text", type |-> "conversation"]
                          ELSE [message |-> "Conversation engine not available"]]
      [] InteractionType(data) = "health_query" ->
            [raised |-> FALSE, twin |-> t,
             response |-> IF t.has_engines
                          THEN [health_metrics |-> t.health_metrics,
                                timestamp |-> t.last_health_update]
                          ELSE [message |-> "Health monitor not available"]]
      [] InteractionType(data) = "behavior_request" ->
            [raised |-> t.has_engines
                        /\ \E i \in 1..Len(t.behavior_patterns) :
                              ~HasAttr(t.behavior_patterns[i], "pattern_type"),
             twin |-> t,
             response |-> IF t.has_engines
                          THEN [behavior_patterns |-> t.behavior_patterns]
                          ELSE [message |-> "Behavior simulator not available"]]
      [] InteractionType(data) = "visual_update" ->
            [raised |-> FALSE, twin |-> t,
             response |-> IF t.has_engines
                          THEN [visual_state |-> t.visual_profile,
                                current_activity |-> t.current_activity,
                                mood_visualization |-> t.current_mood]
                          ELSE [message |-> "Visualization engine not available"]]
      [] OTHER ->
            [raised |-> FALSE, twin |-> t,
             response |-> [message |-> "Unknown interaction type",
                           type |-> InteractionType(data)]]

\* DigitalTwin._update_state_from_interaction
_update_state_from_interaction(t, response) ==
    [t EXCEPT !.current_mood =
                  IF "mood_change" \in DOMAIN response THEN response.mood_change ELSE @,
              !.current_activity =
                  IF "activity_change" \in DOMAIN response THEN response.activity_change ELSE @,
              !.energy_level =
                  IF "energy_change" \in DOMAIN response
                  THEN Max(0, Min(100, @ + response.energy_change)) ELSE @]

\* A process_interaction that dispatches first and logs on success only.
twin_process_interaction_logs_after(t, data) ==
    LET handled == _handle_interaction(t, data)
    IN IF handled.raised
       THEN [res |-> "error", twin |-> handled.twin, response |-> handled.response]
       ELSE [res |-> "result",
             twin |-> [handled.twin EXCEPT !.interaction_log =
                           Append(@, [type |-> InteractionType(data), outcome |-> "absent"])],
             response |-> handled.response]

\* DigitalTwin.process_interaction: the log entry is appended first; an
\* exception of the handler is caught and an error map returned.
twin_process_interaction(t, data) ==
    LET logged == [t EXCEPT !.interaction_log =
                       Append(@, [type |-> InteractionType(data), outcome |-> "absent"])]
        handled == _handle_interaction(logged, data)
    IN IF handled.raised
       THEN [res |-> "error", twin |-> handled.twin, response |-> handled.response]
       ELSE [res |-> "result",
             twin |-> _update_state_from_interaction(handled.twin, handled.response),
             response |-> handled.response]

\* DigitalTwin.get_behavior_patterns, as get_twin_state uses it.
get_behavior_patterns_raises(t) ==
    \E i \in 1..Len(t.behavior_patterns) : ~HasAttr(t.behavior_patterns[i], "pattern_type")

\* --------------------------------------------------- conversation engine
\* A message is the set of the keywords of the classifiers' lists that occur
\* in its lower-cased text ("?" included): "word in message_lower".
Has(message, words) == message \cap words # {}

\* ConversationEngine._classify_message_type
_classify_message_type(message) ==
    IF Has(message, {"hello", "hi", "hey", "good morning", "good afternoon", "good evening"})
    THEN "greeting"
    ELSE IF Has(message, {"what", "how", "why", "when", "where", "who", "?"}) THEN "question"
    ELSE IF Has(message, {"please", "can you", "could you", "help me", "show me"}) THEN "command"
    ELSE IF Has(message, {"goodbye", "bye", "see you", "take care", "farewell"}) THEN "farewell"
    ELSE IF Has(message, {"great", "awesome", "amazing", "wonderful", "excellent", "good job"})
    THEN "compliment"
    ELSE "text"

\* ConversationEngine._analyze_sentiment_rule_based
_analyze_sentiment_rule_based(message) ==
    IF Has(message, {"good", "great", "excellent", "amazing", "wonderful", "happy", "joy",
                     "love", "like", "enjoy"})
    THEN "positive"
    ELSE IF Has(message, {"bad", "terrible", "awful", "hate", "dislike", "sad", "angry",
                          "frustrated", "upset"})
    THEN "negative"
    ELSE "neutral"

\* ConversationEngine._detect_intent_rule_based
_detect_intent_rule_based(message) ==
    IF Has(message, {"hello", "hi", "hey", "good morning", "good afternoon"}) THEN "greet"
    ELSE IF Has(message, {"?", "what", "how", "why", "when", "where", "who"}) THEN "ask_question"
    ELSE IF Has(message, {"can you", "please", "help", "need", "want"}) THEN "request_action"
    ELSE IF Has(message, {"is", "are", "was", "were", "will", "going to"})
    THEN "provide_information"
    ELSE "socialize"

\* ConversationEngine._extract_topic
_extract_topic(message) ==
    IF Has(message, {"work", "project", "meeting", "deadline", "task"}) THEN "work"
    ELSE IF Has(message, {"health", "exercise", "diet", "sleep", "stress"}) THEN "health"
    ELSE IF Has(message, {"friend", "family", "party", "event", "social"}) THEN "social"
    ELSE IF Has(message, {"hobby", "interest", "passion", "goal", "dream"}) THEN "personal"
    ELSE "general"

\* ConversationEngine._initialize_response_templates
response_templates ==
    <<[template_id |-> "greeting_morning", scenario |-> "morning_greeting",
       personality_traits |-> [extraversion |-> 70, agreeableness |-> 80],
       context_requirements |-> [time_of_day |-> "morning"], confidence |-> 90],
      [template_id |-> "work_discussion", scenario |-> "work_conversation",
       personality_traits |-> [conscientiousness |-> 80, confidence |-> 70],
       context_requirements |-> [topic |-> "work", energy_level |-> 60], confidence |-> 80],
      [template_id |-> "emotional_support", scenario |-> "emotional_support",
       personality_traits |-> [empathy |-> 80, agreeableness |-> 90],
       context_requirements |-> [sentiment |-> "negative", energy_level |-> 40],
       confidence |-> 80],
      [template_id |-> "social_engagement", scenario |-> "social_interaction",
       personality_traits |-> [extraversion |-> 80, openness |-> 70],
       context_requirements |-> [topic |-> "personal", sentiment |-> "positive"],
       confidence |-> 70]>>

\* ConversationEngine._matches_scenario
_matches_scenario(template, context, message) ==
    \/ template.scenario = "morning_greeting" /\ context.topic = "greeting"
    \/ template.scenario = "work_conversation" /\ context.topic = "work"
    \/ template.scenario = "emotional_support" /\ message.sentiment \in {"negative", "anxious"}
    \/ template.scenario = "social_interaction" /\ context.topic \in {"social", "personal"}

Abs(x) == IF x < 0 THEN -x ELSE x

RECURSIVE SumOver(_, _)
SumOver(f, keys) ==
    IF keys = {} THEN 0
    ELSE LET k == CHOOSE x \in keys : TRUE IN f[k] + SumOver(f, keys \ {k})

\* total / count, doubled and in hundredths; 0.5 when nothing was counted.
\* Every template names at most two traits and two requirements, so the
\* doubled mean is an integer.
Mean2(total, count) == IF count = 0 THEN 100 ELSE (2 * total) \div count

\* ConversationEngine._calculate_personality_match, doubled
_calculate_personality_match(template, personality_traits) ==
    LET counted == DOMAIN template.personality_traits \cap DOMAIN personality_traits
        similarity == [t \in counted |->
                          100 - Abs(personality_traits[t] - template.personality_traits[t])]
    IN Mean2(SumOver(similarity, counted), Cardinality(counted))

\* ConversationEngine._calculate_context_match, doubled.  A topic or a
\* sentiment requirement counts only when it matches.
_calculate_context_match(template, context, message, hour) ==
    LET req == template.context_requirements
        TimeMatches(v) == \/ v = "morning" /\ 6 <= hour /\ hour <= 11
                          \/ v = "afternoon" /\ 12 <= hour /\ hour <= 17
                          \/ v = "evening" /\ 18 <= hour /\ hour <= 21
                          \/ v = "night" /\ (22 <= hour \/ hour <= 5)
        counted == {r \in DOMAIN req :
                       \/ r \in {"time_of_day", "energy_level"}
                       \/ r = "topic" /\ context.topic = req[r]
                       \/ r = "sentiment" /\ message.sentiment = req[r]}
        match == [r \in counted |->
                     IF r = "time_of_day" THEN (IF TimeMatches(req[r]) THEN 100 ELSE 0)
                     ELSE IF r = "energy_level"
                     THEN (IF Abs(context.energy_level - req[r]) < 20 THEN 100 ELSE 0)
                     ELSE 100]
    IN Mean2(SumOver(match, counted), Cardinality(counted))

\* The score of one template, in units of 1/2000:
\* 0.4 * scenario + 0.3 * personality + 0.3 * context.
TemplateScore(template, context, message, personality_traits, hour) ==
    (IF _matches_scenario(template, context, message) THEN 800 ELSE 0)
    + 3 * _calculate_personality_match(template, personality_traits)
    + 3 * _calculate_context_match(template, context, message, hour)

\* The loop of _find_response_template over the first n templates:
\* [best_template, best_score], 0 for no template.
RECURSIVE BestTemplate(_, _, _, _, _)
BestTemplate(n, context, message, personality_traits, hour) ==
    IF n = 0 THEN [best_template |-> 0, best_score |-> 0]
    ELSE LET prev == BestTemplate(n - 1, context, message, personality_traits, hour)
             score == TemplateScore(response_templates[n], context, message,
                                    personality_traits, hour)
         IN IF score > prev.best_score
            THEN [best_template |-> n, best_score |-> score]
            ELSE prev

\* The score a template must exceed: 0.5.
TemplateThreshold == 1000

\* A selection that takes the best template whatever it scores.
_find_response_template_any(context, message, personality_traits, hour) ==
    BestTemplate(Len(response_templates), context, message, personality_traits, hour).best_template

\* ConversationEngine._find_response_template: the index of the template, 0
\* for None.
_find_response_template(context, message, personality_traits, hour) ==
    LET best == BestTemplate(Len(response_templates), context, message, personality_traits, hour)
    IN IF best.best_score > TemplateThreshold THEN best.best_template ELSE 0

\* A context update that restarts the conversation on every message.
_update_conversation_context_restart(e, conversation_id, m) ==
    [e EXCEPT !.active_conversations =
         Put(@, conversation_id,
             [participants |-> <<m.sender>>, topic |-> _extract_topic(m.content),
              mood |-> m.sentiment, energy_level |-> 70,
              start_time |-> m.timestamp, last_activity |-> m.timestamp,
              message_count |-> 1])]

\* ConversationEngine._update_conversation_context
_update_conversation_context(e, conversation_id, m) ==
    IF conversation_id \notin DOMAIN e.active_conversations
    THEN [e EXCEPT !.active_conversations =
              Put(@, conversation_id,
                  [participants |-> <<m.sender>>, topic |-> _extract_topic(m.content),
                   mood |-> m.sentiment, energy_level |-> 70,
                   start_time |-> m.timestamp, last_activity |-> m.timestamp,
                   message_count |-> 1])]
    ELSE [e EXCEPT !.active_conversations[conversation_id] =
              [@ EXCEPT !.last_activity = m.timestamp,
                        !.message_count = @ + 1,
                        !.mood = IF m.sentiment # "neutral" THEN m.sentiment ELSE @]]

\* ConversationEngine._fallback_message_processing: the message is "text".
process_message_fallback(e, message, sender, conversation_id) ==
    LET m == [sender |-> sender, content |-> message, message_type |-> "text",
              timestamp |-> now,
              sentiment |-> _analyze_sentiment_rule_based(message),
              intent |-> _detect_intent_rule_based(message)]
    IN [engine |-> _update_conversation_context(
                       [e EXCEPT !.conversation_history = Append(@, m)], conversation_id, m),
        message |-> m]

\* ConversationEngine.process_message with no ML backend (ai_available is
\* false): [engine, message].
process_message(e, message, sender, conversation_id) ==
    LET m == [sender |-> sender, content |-> message,
              message_type |-> _classify_message_type(message),
              timestamp |-> now,
              sentiment |-> _analyze_sentiment_rule_based(message),
              intent |-> _detect_intent_rule_based(message)]
    IN [engine |-> _update_conversation_context(
                       [e EXCEPT !.conversation_history = Append(@, m)], conversation_id, m),
        message |-> m]

\* ConversationEngine._generate_contextual_fallback: which text is returned.
_generate_contextual_fallback(m, personality_traits) ==
    IF m.message_type = "question" THEN "interesting question"
    ELSE IF m.message_type = "greeting" THEN "hello"
    ELSE IF m.sentiment = "negative" THEN "here to listen"
    ELSE IF m.sentiment = "positive" THEN "wonderful"
    ELSE IF m.intent = "request_action" THEN "happy to help"
    ELSE IF m.intent = "seek_help" THEN "here to support"
    ELSE IF DictGet(personality_traits, "empathy", 50) > 70 THEN "tell me more"
    ELSE IF DictGet(personality_traits, "extraversion", 50) > 70 THEN "fascinating"
    ELSE "appreciate"

\* The result map both paths build from the processed message, the
\* conversation context and the selected template (0: none, the fallback).
ResponseResult(m, context, personality_traits, hour, conversation_id) ==
    LET template == _find_response_template(context, m, personality_traits, hour)
    IN [kind |-> "result",
        selection |-> template,
        response |-> IF template # 0 THEN "template"
                     ELSE _generate_contextual_fallback(m, personality_traits),
        confidence |-> IF template # 0 THEN response_templates[template].confidence ELSE 70,
        message_type |-> m.message_type, sentiment |-> m.sentiment, intent |-> m.intent,
        conversation_id |-> conversation_id]

\* ConversationEngine._generate_response_async: [engine, result].
_generate_response_async(e, message, sender, conversation_id, personality_traits, hour) ==
    LET processed == process_message(e, message, sender, conversation_id)
        e1 == processed.engine
        e2 == IF conversation_id \in DOMAIN e1.active_conversations THEN e1
              ELSE [e1 EXCEPT !.active_conversations =
                        Put(@, conversation_id,
                            [participants |-> <<sender, "digital_twin">>,
                             topic |-> _extract_topic(message), mood |-> "neutral",
                             energy_level |-> 70, start_time |-> now,
                             last_activity |-> now, message_count |-> 1])]
        conv_context == e2.active_conversations[conversation_id]
    IN [engine |-> [e2 EXCEPT !.active_conversations[conversation_id] =
                        [@ EXCEPT !.last_activity = now, !.message_count = @ + 1]],
        result |-> ResponseResult(processed.message, conv_context, personality_traits, hour,
                                  conversation_id)]

\* ConversationEngine._generate_response_sync: [engine, result].
_generate_response_sync(e, message, sender, conversation_id, personality_traits, hour) ==
    LET m == [sender |-> sender, content |-> message,
              message_type |-> _classify_message_type(message),
              timestamp |-> now,
              sentiment |-> _analyze_sentiment_rule_based(message),
              intent |-> _detect_intent_rule_based(message)]
        e1 == IF conversation_id \in DOMAIN e.active_conversations THEN e
              ELSE [e EXCEPT !.active_conversations =
                        Put(@, conversation_id,
                            [participants |-> <<sender, "digital_twin">>,
                             topic |-> _extract_topic(message), mood |-> "neutral",
                             energy_level |-> 70, start_time |-> now,
                             last_activity |-> now, message_count |-> 1])]
        conv_context == e1.active_conversations[conversation_id]
    IN [engine |-> [e1 EXCEPT !.active_conversations[conversation_id] =
                                  [@ EXCEPT !.last_activity = now, !.message_count = @ + 1],
                              !.conversation_history = Append(@, m)],
        result |-> ResponseResult(m, conv_context, personality_traits, hour, conversation_id)]

\* ConversationEngine.__init__: no conversation, no history.
ConversationEngine == [active_conversations |-> EmptyDict, conversation_history |-> <<>>]
Paths == {"sync", "async"}
NoReply == [kind |-> "none"]

\* -------------------------------------------------------- health monitor
\* HealthMonitor.alert_thresholds
alert_thresholds ==
    [heart_rate |-> [low |-> 50, high |-> 100],
     blood_pressure_systolic |-> [low |-> 90, high |-> 140],
     stress_level |-> [low |-> 0, high |-> 80]]

HealthAlert(alert_id, alert_type, severity, reading, metrics) ==
    [alert_id |-> alert_id, alert_type |-> alert_type, severity |-> severity,
     timestamp |-> reading.timestamp, metrics |-> metrics]

\* The blood-pressure and stress alerts of one pass.
PressureAndStressAlerts(alert_id, reading) ==
    (IF reading.blood_pressure_systolic > alert_thresholds.blood_pressure_systolic.high
     THEN <<HealthAlert(alert_id, "high_blood_pressure", "high", reading,
                        <<reading.blood_pressure_systolic, reading.blood_pressure_diastolic>>)>>
     ELSE <<>>)
    \o (IF reading.stress_level > alert_thresholds.stress_level.high
        THEN <<HealthAlert(alert_id, "high_stress", "moderate", reading,
                           <<reading.stress_level>>)>>
        ELSE <<>>)

\* The alerts one pass of _check_health_alerts builds; each takes its id from
\* the length of health_alerts before the pass.
NewAlerts(health_alerts, reading) ==
    LET alert_id == Len(health_alerts) + 1
    IN (IF reading.heart_rate < alert_thresholds.heart_rate.low
        THEN <<HealthAlert(alert_id, "low_heart_rate", "moderate", reading,
                           <<reading.heart_rate>>)>>
        ELSE IF reading.heart_rate > alert_thresholds.heart_rate.high
        THEN <<HealthAlert(alert_id, "high_heart_rate", "moderate", reading,
                           <<reading.heart_rate>>)>>
        ELSE <<>>)
       \o PressureAndStressAlerts(alert_id, reading)

\* A pass with inclusive heart-rate thresholds.
_check_health_alerts_inclusive(m, reading) ==
    [m EXCEPT !.health_alerts =
         @ \o (IF reading.heart_rate <= alert_thresholds.heart_rate.low
               THEN <<HealthAlert(Len(@) + 1, "low_heart_rate", "moderate", reading,
                                  <<reading.heart_rate>>)>>
               ELSE IF reading.heart_rate >= alert_thresholds.heart_rate.high
               THEN <<HealthAlert(Len(@) + 1, "high_heart_rate", "moderate", reading,
                                  <<reading.heart_rate>>)>>
               ELSE <<>>)
           \o PressureAndStressAlerts(Len(@) + 1, reading)]

\* A pass that keeps only its own alerts.
_check_health_alerts_replacing(m, reading) ==
    [m EXCEPT !.health_alerts = NewAlerts(@, reading)]

\* HealthMonitor._check_health_alerts
_check_health_alerts(m, reading) ==
    [m EXCEPT !.health_alerts = @ \o NewAlerts(@, reading)]

\* HealthMonitor._calculate_stress_level
_calculate_stress_level(heart_rate, systolic, diastolic, time_of_day, u) ==
    LET stress_score ==
            (IF heart_rate > 90 THEN 30 ELSE IF heart_rate > 80 THEN 20 ELSE 0)
            + (IF systolic > 130 \/ diastolic > 85 THEN 30
               ELSE IF systolic > 120 \/ diastolic > 80 THEN 10 ELSE 0)
            + (IF time_of_day \in {"morning", "evening"} THEN 10 ELSE 0)
    IN Min(100, stress_score + Uniform(-10, 10, u))

\* HealthMonitor._calculate_energy_level; oxygen in hundredths of a percent.
_calculate_energy_level(heart_rate, oxygen, time_of_day, activity_level, u) ==
    LET energy_score ==
            80
            + (IF oxygen < 9600 THEN -20 ELSE IF oxygen > 9900 THEN 10 ELSE 0)
            + (IF 60 <= heart_rate /\ heart_rate <= 80 THEN 10
               ELSE IF heart_rate > 100 THEN -20 ELSE 0)
            + (CASE time_of_day = "morning" -> 10
                 [] time_of_day = "afternoon" -> 5
                 [] time_of_day = "evening" -> -10
                 [] time_of_day = "night" -> -30
                 [] OTHER -> 0)
            + (IF activity_level = "high" THEN -20
               ELSE IF activity_level = "low" THEN 10 ELSE 0)
    IN Max(10, Min(100, energy_score + Uniform(-10, 10, u)))

\* HealthMonitor._calculate_sleep_quality
_calculate_sleep_quality(time_of_day, stress_level, energy_level, u) ==
    LET sleep_score ==
            70
            + (IF stress_level > 70 THEN -30 ELSE IF stress_level < 30 THEN 20 ELSE 0)
            + (IF energy_level < 40 THEN 20 ELSE IF energy_level > 80 THEN -10 ELSE 0)
            + (IF time_of_day = "night" THEN 10
               ELSE IF time_of_day = "morning" THEN -20 ELSE 0)
    IN Max(10, Min(100, sleep_score + Uniform(-10, 10, u)))

\* HealthMonitor.generate_biometric_reading; temperature in hundredths of a
\* degree, oxygen in hundredths of a percent.
generate_biometric_reading(age, gender, activity_level, time_of_day, u) ==
    LET base_heart_rate ==
            72 + (IF age < 25 THEN Uniform(-5, 5, u)
                  ELSE IF age > 50 THEN Uniform(-3, 3, u) ELSE 0)
               + (IF gender = "female" THEN Uniform(2, 8, u) ELSE 0)
               + (IF activity_level = "high" THEN Uniform(10, 30, u)
                  ELSE IF activity_level = "low" THEN Uniform(-5, 5, u) ELSE 0)
               + (IF time_of_day = "morning" THEN Uniform(-3, 3, u)
                  ELSE IF time_of_day = "night" THEN Uniform(-5, 2, u) ELSE 0)
        base_systolic ==
            120 + (IF age < 25 THEN Uniform(-10, 10, u)
                   ELSE IF age > 50 THEN Uniform(5, 20, u) ELSE 0)
                + (IF gender = "female" THEN Uniform(-5, 5, u) ELSE 0)
                + (IF activity_level = "high" THEN Uniform(10, 25, u) ELSE 0)
        base_temperature ==
            9860 + (IF activity_level = "high" THEN Uniform(50, 150, u)
                    ELSE IF activity_level = "low" THEN Uniform(-50, 50, u) ELSE 0)
                 + (IF time_of_day = "night" THEN Uniform(-50, 20, u) ELSE 0)
        base_oxygen ==
            9800 + (IF time_of_day = "morning" THEN Uniform(50, 100, u) ELSE 0)
        heart_rate == Max(50, Min(120, base_heart_rate + Uniform(-5, 5, u)))
        systolic == Max(90, Min(160, base_systolic + Uniform(-8, 8, u)))
        diastolic == Max(60, Min(100, 80 + Uniform(-5, 5, u)))
        temperature == Max(9700, Min(10000, base_temperature + Uniform(-30, 30, u)))
        oxygen == Max(9500, Min(10000, base_oxygen + Uniform(-100, 100, u)))
        respiratory == Max(12, Min(20, 16 + Uniform(-2, 2, u)))
        stress_level == _calculate_stress_level(heart_rate, systolic, diastolic, time_of_day, u)
        energy_level == _calculate_energy_level(heart_rate, oxygen, time_of_day,
                                                activity_level, u)
        sleep_quality == _calculate_sleep_quality(time_of_day, stress_level, energy_level, u)
    IN [timestamp |-> now, heart_rate |-> heart_rate,
        blood_pressure_systolic |-> systolic, blood_pressure_diastolic |-> diastolic,
        temperature |-> temperature, oxygen_saturation |-> oxygen,
        respiratory_rate |-> respiratory, stress_level |-> stress_level,
        energy_level |-> energy_level, sleep_quality |-> sleep_quality]

\* HealthMonitor._update_health_trends: with three readings or more, one
\* trend is appended for each of the seven metrics.
_update_health_trends(m) ==
    IF Len(m.biometric_history) < 3 THEN m ELSE [m EXCEPT !.health_trends = @ + 7]

\* HealthMonitor.update_health_metrics
monitor_update_health_metrics(m, context, u) ==
    LET new_reading == generate_biometric_reading(
                           DictGet(context, "age", 25),
                           DictGet(context, "gender", "unspecified"),
                           DictGet(context, "activity_level", "moderate"),
                           DictGet(context, "time_of_day", "afternoon"), u)
    IN _update_health_trends(
           _check_health_alerts([m EXCEPT !.biometric_history = Append(@, new_reading)],
                                new_reading))

\* HealthMonitor.get_health_alerts: the alerts newer than the cutoff.
get_health_alerts(m, hours) ==
    SelectSeq(m.health_alerts, LAMBDA a : a.timestamp > now - hours * 3600)

\* HealthMonitor.get_health_summary
get_health_summary(m) ==
    IF m.biometric_history = <<>> THEN [status |-> "no_data"]
    ELSE [status |-> "healthy",
          latest_reading |-> m.biometric_history[Len(m.biometric_history)],
          alerts_count |-> Len(get_health_alerts(m, 24)),
          trends_count |-> m.health_trends]

\* HealthMonitor.__init__
HealthMonitor == [biometric_history |-> <<>>, health_alerts |-> <<>>, health_trends |-> 0]

\* ----------------------------------------------------- behavior simulator
\* A context value: a number (hundredths) or a string.
Num(n) == [num |-> TRUE, n |-> n, s |-> ""]
Str(s) == [num |-> FALSE, n |-> 0, s |-> s]

\* BehaviorSimulator._initialize_default_patterns
default_patterns ==
    <<[pattern_type |-> "routine_activity", frequency |-> 90, confidence |-> 80,
       last_observed |-> 0,
       context |-> [time_of_day |-> Str("morning"), energy_level |-> Str("high")]],
      [pattern_type |-> "work_activity", frequency |-> 80, confidence |-> 70,
       last_observed |-> 0,
       context |-> [environment |-> Str("work"), stress_level |-> Str("moderate")]],
      [pattern_type |-> "social_interaction", frequency |-> 60, confidence |-> 60,
       last_observed |-> 0,
       context |-> [social_context |-> Str("group"), mood |-> Str("positive")]]>>

\* The context similarity of _matches_pattern, in tenths.
ContextSimilarity(event, pattern) ==
    LET shared == DOMAIN event.context \cap DOMAIN pattern.context
        gain == [key \in shared |->
                    IF event.context[key].num /\ pattern.context[key].num
                    THEN (IF Abs(event.context[key].n - pattern.context[key].n) < 20
                          THEN 2 ELSE 0)
                    ELSE IF event.context[key] = pattern.context[key] THEN 3 ELSE 0]
    IN SumOver(gain, shared)

\* A match that takes a similarity of exactly 0.3.
_matches_pattern_inclusive(event, pattern) ==
    event.event_type = pattern.pattern_type /\ ContextSimilarity(event, pattern) >= 3

\* BehaviorSimulator._matches_pattern
_matches_pattern(event, pattern) ==
    event.event_type = pattern.pattern_type /\ ContextSimilarity(event, pattern) > 3

\* BehaviorSimulator._update_behavior_patterns: the first matching pattern
\* is reinforced, else a new pattern is appended.
_update_behavior_patterns(sim, event) ==
    LET matching == {i \in 1..Len(sim.behavior_patterns) :
                        _matches_pattern(event, sim.behavior_patterns[i])}
    IN IF matching # {}
       THEN LET first == CHOOSE i \in matching : \A j \in matching : i <= j
            IN [sim EXCEPT !.behavior_patterns[first] =
                    [@ EXCEPT !.frequency = Min(100, @ + 10),
                              !.last_observed = event.timestamp,
                              !.confidence = Min(100, @ + 5)]]
       ELSE [sim EXCEPT !.behavior_patterns =
                 Append(@, [pattern_type |-> event.event_type, frequency |-> 10,
                            confidence |-> 30, last_observed |-> event.timestamp,
                            context |-> event.context])]

\* BehaviorSimulator.__init__
BehaviorSimulator == [behavior_patterns |-> <<>>, is_initialized |-> FALSE]

\* No component function has been called directly.
NoCall == [fn |-> "none", args |-> EmptyDict, out |-> 0, done |-> TRUE]

\* ------------------------------------------------------------ the engine
Ret(op, id, res) == [op |-> op, id |-> id, res |-> res]

\* self.twins.get(twin_id)
get_twin(twin_id) == IF twin_id \in DOMAIN twins THEN twins[twin_id] ELSE None

\* f"twin_{len(self.twins) + 1}_{datetime.now().strftime('%Y%m%d_%H%M%S')}"
NewTwinId == <<Cardinality(DOMAIN twins) + 1, now>>

sched == <<engines, running, phase, task, awaiting, lastTick>>

\* The component instances after construction.
ComponentsInit ==
    /\ conv = [p \in Paths |-> ConversationEngine]
    /\ reply = [p \in Paths |-> NoReply]
    /\ monitor = HealthMonitor
    /\ simulator = BehaviorSimulator

EngineInit ==
    /\ now = 0
    /\ advances = 0
    /\ twins = EmptyDict
    /\ order = <<>>
    /\ engines = FALSE
    /\ running = FALSE
    /\ phase = "new"
    /\ task = [l \in LoopNames |-> "none"]
    /\ awaiting = 0
    /\ lastTick = [loop |-> "none", called |-> <<>>, failed |-> {}, epoch |-> 0, sleep |-> 0]
    /\ ret = Ret("none", InvalidId, "none")

Init == EngineInit /\ ComponentsInit /\ call = NoCall

AdvanceClock(d) ==
    /\ advances < MaxAdvances
    /\ now' = now + d
    /\ advances' = advances + 1
    /\ UNCHANGED <<components, twins, order, sched, ret>>

\* DigitalTwinEngine.create_twin
create_twin(twin_config, u) ==
    /\ Cardinality(DOMAIN twins) < MaxTwins
    /\ LET twin_id == NewTwinId
           twin == initialize_twin(
                       DigitalTwin(twin_config.name, twin_config.description,
                                   twin_config.personality_profile,
                                   twin_config.health_profile, {}), u)
       IN /\ twins' = Put(twins, twin_id, twin)
          /\ order' = IF twin_id \in DOMAIN twins THEN order ELSE Append(order, twin_id)
          /\ ret' = Ret("create_twin", twin_id, "id")
    /\ UNCHANGED <<components, now, advances, sched>>

\* DigitalTwinEngine.get_twin
GetTwin(twin_id) ==
    /\ ret' = Ret("get_twin", twin_id, IF get_twin(twin_id) = None THEN "null" ELSE "twin")
    /\ UNCHANGED <<components, now, advances, twins, order, sched>>

\* DigitalTwinEngine.update_twin
\* An update that reaches every twin, as through a trait object they share.
update_twin_shared(twin_id, updates) ==
    /\ twins' = [i \in DOMAIN twins |-> update(twins[i], updates).twin]
    /\ ret' = Ret("update_twin", twin_id, "true")
    /\ UNCHANGED <<components, now, advances, order, sched>>

update_twin(twin_id, updates) ==
    /\ IF get_twin(twin_id) = None
       THEN /\ ret' = Ret("update_twin", twin_id, "false")
            /\ UNCHANGED twins
       ELSE LET r == update(twins[twin_id], updates)
            IN /\ twins' = [twins EXCEPT ![twin_id] = r.twin]
               /\ ret' = Ret("update_twin", twin_id,
                             IF r.raised THEN "false" ELSE "true")
    /\ UNCHANGED <<components, now, advances, order, sched>>

\* A delete that answers true whatever the id and leaves the registry alone.
delete_twin_lenient(twin_id) ==
    /\ ret' = Ret("delete_twin", twin_id, "true")
    /\ UNCHANGED <<twins, order>>
    /\ UNCHANGED <<components, now, advances, sched>>

\* DigitalTwinEngine.delete_twin
delete_twin(twin_id) ==
    /\ IF get_twin(twin_id) = None
       THEN /\ ret' = Ret("delete_twin", twin_id, "false")
            /\ UNCHANGED <<twins, order>>
       ELSE /\ twins' = Remove(twins, twin_id)
            /\ order' = Without(order, twin_id)
            /\ ret' = Ret("delete_twin", twin_id, "true")
    /\ UNCHANGED <<components, now, advances, sched>>

\* DigitalTwinEngine.get_twin_state
get_twin_state(twin_id) ==
    /\ ret' = Ret("get_twin_state", twin_id,
                  IF get_twin(twin_id) = None THEN "null"
                  ELSE IF get_behavior_patterns_raises(twins[twin_id]) THEN "null"
                  ELSE "state")
    /\ UNCHANGED <<components, now, advances, twins, order, sched>>

\* DigitalTwinEngine.process_interaction
process_interaction(twin_id, data) ==
    /\ IF get_twin(twin_id) = None
       THEN /\ ret' = Ret("process_interaction", twin_id, "error")
            /\ UNCHANGED twins
       ELSE /\ Len(twins[twin_id].interaction_log) < MaxLog
            /\ LET r == twin_process_interaction(twins[twin_id], data)
               IN /\ twins' = [twins EXCEPT ![twin_id] = r.twin]
                  /\ ret' = Ret("process_interaction", twin_id, r.res)
    /\ UNCHANGED <<components, now, advances, order, sched>>

\* ---------------------------------------------------------- the scheduler
Done(st) == st \in {"cancelled", "finished"}

\* An initialize that suspends between creating the tasks and setting running.
Initialize_suspending ==
    /\ phase = "new"
    /\ engines' = TRUE
    /\ task' = [l \in LoopNames |-> "created"]
    /\ running' = FALSE
    /\ phase' = "initialized"
    /\ UNCHANGED <<components, now, advances, twins, order, awaiting, lastTick, ret>>

\* DigitalTwinEngine.initialize: the components are set, the four tasks are
\* created and running is set before initialize() reaches a suspension point.
Initialize ==
    /\ phase = "new"
    /\ engines' = TRUE
    /\ task' = [l \in LoopNames |-> "created"]
    /\ running' = TRUE
    /\ phase' = "initialized"
    /\ UNCHANGED <<components, now, advances, twins, order, awaiting, lastTick, ret>>

\* The twin-level call of a loop: none of the three raises to the loop.
SelfUpdate(loop, t, u) ==
    CASE loop = "health" -> update_health_metrics(t, u)
      [] loop = "personality" -> evolve_personality(t, u)
      [] loop = "behavior" -> simulate_behavior(t)
      [] OTHER -> t

\* A tick that a failing twin ends: what a twin method raising to the loop's
\* own try/except would leave of the for loop.
CalledInTick_abort(loop) ==
    LET failing == {j \in 1..Len(order) : GeneratorFails(loop, twins[order[j]])}
    IN IF loop = "data" THEN <<>>
       ELSE IF failing = {} THEN order
       ELSE SubSeq(order, 1, CHOOSE j \in failing : \A k \in failing : j <= k)

\* The twins one tick calls: "for twin in self.twins.values()" runs to the
\* end, because the twin methods catch what their generators raise.
CalledInTick(loop) == IF loop = "data" THEN <<>> ELSE order

Elems(s) == {s[i] : i \in 1..Len(s)}

\* The argument of the asyncio.sleep that ends a pass, in seconds (the
\* settings at their defaults).
SleepInterval(loop) ==
    CASE loop = "health" -> 60
      [] loop = "personality" -> 300
      [] loop = "behavior" -> 30
      [] OTHER -> 300

\* A backoff of ten seconds in every loop.
Backoff_uniform(loop) == 10

\* The argument of the asyncio.sleep in the loop's except clause.
Backoff(loop) == IF loop = "data" THEN 60 ELSE 10

\* One pass of the body of "while self.running" up to its asyncio.sleep.
LoopTick(loop, u) ==
    /\ task[loop] \in {"created", "sleeping"}
    /\ running
    /\ LET called == CalledInTick(loop)
       IN /\ twins' = [i \in DOMAIN twins |->
                          IF i \in Elems(called) THEN SelfUpdate(loop, twins[i], u)
                          ELSE twins[i]]
          /\ lastTick' = [loop |-> loop, called |-> called,
                          failed |-> {i \in Elems(called) : GeneratorFails(loop, twins[i])},
                          epoch |-> 1 - lastTick.epoch, sleep |-> SleepInterval(loop)]
    /\ task' = [task EXCEPT ![loop] = "sleeping"]
    /\ UNCHANGED <<components, now, advances, order, engines, running, phase, awaiting, ret>>

\* One pass whose try body raises an Exception after k twins were called:
\* the except clause logs it and awaits the backoff sleep.
LoopTickRaises(loop, k) ==
    /\ task[loop] \in {"created", "sleeping"}
    /\ running
    /\ k <= Len(CalledInTick(loop))
    /\ LET called == SubSeq(CalledInTick(loop), 1, k)
       IN /\ twins' = [i \in DOMAIN twins |->
                          IF i \in Elems(called) THEN SelfUpdate(loop, twins[i], 0)
                          ELSE twins[i]]
          /\ lastTick' = [loop |-> loop, called |-> called,
                          failed |-> {i \in Elems(called) : GeneratorFails(loop, twins[i])},
                          epoch |-> 1 - lastTick.epoch, sleep |-> Backoff(loop)]
    /\ task' = [task EXCEPT ![loop] = "sleeping"]
    /\ UNCHANGED <<components, now, advances, order, engines, running, phase, awaiting, ret>>

\* "while self.running" read as false: the coroutine returns.
LoopExit(loop) ==
    /\ task[loop] \in {"created", "sleeping"}
    /\ ~running
    /\ task' = [task EXCEPT ![loop] = "finished"]
    /\ UNCHANGED <<components, now, advances, twins, order, engines, running, phase, awaiting, lastTick, ret>>

\* asyncio.CancelledError is a BaseException (Python >= 3.8): the loops'
\* "except Exception" does not catch it and the task ends cancelled.
AfterCancel == "cancelled"

DeliverCancel(loop) ==
    /\ task[loop] = "cancelling"
    /\ task' = [task EXCEPT ![loop] = AfterCancel]
    /\ UNCHANGED <<components, now, advances, twins, order, engines, running, phase, awaiting, lastTick, ret>>

FirstNotDone(from, tasks) ==
    LET pending == {j \in from..Len(Loops) : ~Done(tasks[Loops[j]])}
    IN IF pending = {} THEN 0 ELSE CHOOSE j \in pending : \A k \in pending : j <= k

\* shutdown()'s for loop, from task number `from` to its next await.
ShutdownAdvance(from) ==
    LET j == FirstNotDone(from, task)
    IN IF j = 0
       THEN /\ phase' = "stopped"
            /\ awaiting' = 0
            /\ UNCHANGED task
       ELSE /\ phase' = "stopping"
            /\ awaiting' = j
            /\ task' = [task EXCEPT ![Loops[j]] = "cancelling"]

\* A shutdown that cancels and does not wait.
AwaitReturns_nowait(st) == TRUE

\* "await task" returns once the task is done.
AwaitReturns(st) == Done(st)

\* DigitalTwinEngine.shutdown, to its first await
shutdown_begin ==
    /\ phase = "initialized"
    /\ running' = FALSE
    /\ ShutdownAdvance(1)
    /\ UNCHANGED <<components, now, advances, twins, order, engines, lastTick, ret>>

\* DigitalTwinEngine.shutdown, resumed by the awaited task
shutdown_resume ==
    /\ phase = "stopping"
    /\ awaiting > 0
    /\ AwaitReturns(task[Loops[awaiting]])
    /\ ShutdownAdvance(awaiting + 1)
    /\ UNCHANGED <<components, now, advances, twins, order, engines, running, lastTick, ret>>

\* ------------------------------------------------------------- the inputs
Config(name, personality_profile, health_profile) ==
    [name |-> name, description |-> "", personality_profile |-> personality_profile,
     health_profile |-> health_profile]

Updates(profile, personality, health, visual) ==
    [profile |-> profile, personality |-> personality, health |-> health, visual |-> visual]

Names == {"T1"}
Ids == DOMAIN twins \cup {InvalidId, ret.id}

LifecycleConfigs == {Config(n, EmptyDict, EmptyDict) : n \in Names}
LifecycleUpdates ==
    {Updates(Dict([description |-> "x"]), Absent, Absent, Absent),
     Updates(Dict([description |-> "x"]), Malformed, Absent, Absent)}
Interactions ==
    {[type |-> "conversation", sender |-> "user"],
     [type |-> "health_query", sender |-> ""],
     [type |-> "behavior_request", sender |-> ""],
     [type |-> "visual_update", sender |-> ""],
     [type |-> "unknown", sender |-> ""]}

\* ------------------------------------------- the registry and the API calls
Next ==
    \/ Initialize
    \/ AdvanceClock(1)
    \/ \E c \in LifecycleConfigs : create_twin(c, 0)
    \/ \E i \in Ids : GetTwin(i)
    \/ \E i \in Ids, upd \in LifecycleUpdates : update_twin(i, upd)
    \/ \E i \in Ids : delete_twin(i)
    \/ \E i \in Ids \ DOMAIN twins : get_twin_state(i)
    \/ \E i \in Ids \ DOMAIN twins, d \in Interactions : process_interaction(i, d)

Spec == Init /\ [][Next]_vars

\* ------------------------------ the behavior loop and the interactions
BehaviorUpdates ==
    {Updates(Absent, Dict([extraversion |-> NotNumber]), Absent, Absent),
     Updates(Absent, Dict([extraversion |-> 80]), Absent, Absent)}
StatusInteractions ==
    {d \in Interactions : d.type \in {"conversation", "health_query", "behavior_request"}}

BehaviorNext ==
    \/ Initialize
    \/ create_twin(Config("T1", EmptyDict, EmptyDict), 0)
    \/ \E i \in DOMAIN twins, upd \in BehaviorUpdates : update_twin(i, upd)
    \/ \E i \in DOMAIN twins, d \in StatusInteractions : process_interaction(i, d)
    \/ LoopTick("behavior", 0)

\* The event loop resumes a task whose sleep has ended.
BehaviorSpec == Init /\ [][BehaviorNext]_vars /\ WF_vars(LoopTick("behavior", 0))

\* The behavior simulation loop alone, over twins whose traits the caller
\* has set.
TickNext ==
    \/ Initialize
    \/ create_twin(Config("T1", EmptyDict, EmptyDict), 0)
    \/ \E i \in DOMAIN twins, upd \in BehaviorUpdates : update_twin(i, upd)
    \/ LoopTick("behavior", 0)

TickSpec == Init /\ [][TickNext]_vars /\ WF_vars(LoopTick("behavior", 0))

\* Interactions of a type the dispatcher does not know, and of no type.
UnknownTypeInteractions == {[type |-> "teleport", sender |-> ""], [sender |-> ""]}
AllInteractions == Interactions \cup UnknownTypeInteractions

\* One twin, its interactions, its state reads and the behavior loop.
InteractionNext ==
    \/ Initialize
    \/ twins = EmptyDict /\ create_twin(Config("T1", EmptyDict, EmptyDict), 0)
    \/ \E i \in DOMAIN twins : update_twin(i, Updates(Dict([description |-> "x"]), Absent, Absent, Absent))
    \/ \E i \in DOMAIN twins, d \in AllInteractions : process_interaction(i, d)
    \/ \E i \in Ids : get_twin_state(i)
    \/ LoopTick("behavior", 0)

InteractionSpec == Init /\ [][InteractionNext]_vars

\* ------------------------------------------------- template selection
TemplateTraits ==
    {DefaultTrait,
     [t \in TraitNames |-> 20],
     [t \in TraitNames |-> 0],
     [DefaultTrait EXCEPT !.extraversion = 75, !.openness = 70, !.empathy = 85,
                          !.agreeableness = 88, !.conscientiousness = 80]}
TemplateInputs ==
    [context : [topic : {"greeting", "work", "personal", "general"},
                energy_level : {70, 45}],
     message : [sentiment : {"positive", "negative", "neutral"}],
     personality_traits : TemplateTraits,
     hour : {9, 14}]

\* _find_response_template on every input of TemplateInputs.
TemplateInit ==
    /\ EngineInit /\ ComponentsInit
    /\ call \in {[fn |-> "_find_response_template", args |-> a, out |-> 0, done |-> FALSE] :
                    a \in TemplateInputs}

FindResponseTemplate ==
    /\ call.fn = "_find_response_template" /\ ~call.done
    /\ call' = [call EXCEPT !.done = TRUE,
                            !.out = _find_response_template(call.args.context, call.args.message,
                                                           call.args.personality_traits,
                                                           call.args.hour)]
    /\ UNCHANGED <<now, advances, twins, order, sched, ret, conv, reply, monitor, simulator>>

TemplateNext == FindResponseTemplate

TemplateSpec == TemplateInit /\ [][TemplateNext]_vars

\* ------------------------------------------------- the two call paths
Messages ==
    {{"hello"}, {"what", "work", "?"}, {"sad", "work"}, {"hobby", "good"}, {},
     {"please", "help", "friend"}}
ConversationIds == {"c1", "c2"}
ConversationTraits == {DefaultTrait, [DefaultTrait EXCEPT !.extraversion = 85, !.openness = 70]}
Hours == {9, 14}

\* The same generate_response call on both instances: the one reached from
\* a running event loop (sync) and the one reached from plain code (async).
GenerateResponseBoth(message, sender, conversation_id, personality_traits, hour) ==
    /\ Len(conv["sync"].conversation_history) < MaxMessages
    /\ LET sy == _generate_response_sync(conv["sync"], message, sender, conversation_id,
                                         personality_traits, hour)
           as == _generate_response_async(conv["async"], message, sender, conversation_id,
                                          personality_traits, hour)
       IN /\ conv' = [conv EXCEPT !["sync"] = sy.engine, !["async"] = as.engine]
          /\ reply' = [reply EXCEPT !["sync"] = sy.result, !["async"] = as.result]
    /\ UNCHANGED <<now, advances, twins, order, sched, ret, monitor, simulator, call>>

PathsNext ==
    \E message \in Messages, conversation_id \in ConversationIds,
       personality_traits \in ConversationTraits, hour \in Hours :
        GenerateResponseBoth(message, "user", conversation_id, personality_traits, hour)

PathsSpec == Init /\ [][PathsNext]_vars

\* ------------------------------------------------- the health monitor
\* A reading handed to the alert pass directly; what is not given is in range.
Reading(heart_rate, systolic, stress_level) ==
    [timestamp |-> now, heart_rate |-> heart_rate,
     blood_pressure_systolic |-> systolic, blood_pressure_diastolic |-> 80,
     temperature |-> 9860, oxygen_saturation |-> 9800, respiratory_rate |-> 16,
     stress_level |-> stress_level, energy_level |-> 80, sleep_quality |-> 70]
DirectReadings ==
    {Reading(hr, 120, 30) : hr \in {45, 50, 100, 101}}
    \cup {Reading(101, 150, 90)}
MonitorContexts ==
    {[activity_level |-> "moderate"], [activity_level |-> "high", gender |-> "female"]}

\* await health_monitor.update_health_metrics(twin_id, context)
MonitorUpdate(context, u) ==
    /\ Len(monitor.biometric_history) < MaxReadings
    /\ Len(monitor.health_alerts) < MaxAlerts
    /\ monitor' = monitor_update_health_metrics(monitor, context, u)
    /\ call' = [fn |-> "update_health_metrics", args |-> context,
                out |-> monitor'.biometric_history[Len(monitor'.biometric_history)],
                done |-> TRUE]
    /\ UNCHANGED <<now, advances, twins, order, sched, ret, conv, reply, simulator>>

\* await health_monitor._check_health_alerts(reading, twin_id)
CheckHealthAlerts(reading) ==
    /\ Len(monitor.health_alerts) < MaxAlerts
    /\ monitor' = _check_health_alerts(monitor, reading)
    /\ call' = [fn |-> "_check_health_alerts", args |-> reading, out |-> 0, done |-> TRUE]
    /\ UNCHANGED <<now, advances, twins, order, sched, ret, conv, reply, simulator>>

\* health_monitor.get_health_alerts(hours)
GetHealthAlerts(hours) ==
    /\ call' = [fn |-> "get_health_alerts", args |-> hours,
                out |-> get_health_alerts(monitor, hours), done |-> TRUE]
    /\ UNCHANGED <<now, advances, twins, order, sched, ret, conv, reply, monitor, simulator>>

\* health_monitor.get_health_summary()
GetHealthSummary ==
    /\ call' = [fn |-> "get_health_summary", args |-> 0,
                out |-> get_health_summary(monitor), done |-> TRUE]
    /\ UNCHANGED <<now, advances, twins, order, sched, ret, conv, reply, monitor, simulator>>

\* The clock alone: the other actions leave call as it is.
MonitorClock ==
    /\ advances < MaxAdvances
    /\ now' = now + SecondsPerDay
    /\ advances' = advances + 1
    /\ UNCHANGED <<twins, order, sched, ret, conv, reply, monitor, simulator, call>>

MonitorNext ==
    \/ \E context \in MonitorContexts, u \in Draws : MonitorUpdate(context, u)
    \/ \E reading \in DirectReadings : CheckHealthAlerts(reading)
    \/ GetHealthAlerts(24)
    \/ GetHealthSummary
    \/ MonitorClock

MonitorSpec == Init /\ [][MonitorNext]_vars

\* ------------------------------------------------- the behavior simulator
BehaviorEvent(event_type, context) ==
    [event_type |-> event_type, timestamp |-> now, context |-> context]
WorkEvent(stress_level) ==
    BehaviorEvent("work_activity", [environment |-> Str("work"), stress_level |-> stress_level])
BehaviorEvents ==
    {WorkEvent(Num(50)), WorkEvent(Num(55)), WorkEvent(Num(90)), WorkEvent(Str("moderate")),
     BehaviorEvent("social_interaction", [stress_level |-> Num(55)])}

\* await behavior_simulator.initialize()
SimulatorInitialize ==
    /\ ~simulator.is_initialized
    /\ simulator' = [simulator EXCEPT !.behavior_patterns = @ \o default_patterns,
                                      !.is_initialized = TRUE]
    /\ UNCHANGED <<now, advances, twins, order, sched, ret, conv, reply, monitor, call>>

\* await behavior_simulator._update_behavior_patterns(event)
UpdateBehaviorPatterns(event) ==
    /\ simulator.is_initialized
    /\ Len(simulator.behavior_patterns) < MaxPatterns
    /\ simulator' = _update_behavior_patterns(simulator, event)
    /\ call' = [fn |-> "_update_behavior_patterns", args |-> event, out |-> 0, done |-> TRUE]
    /\ UNCHANGED <<now, advances, twins, order, sched, ret, conv, reply, monitor>>

SimulatorNext ==
    \/ SimulatorInitialize
    \/ \E event \in BehaviorEvents : UpdateBehaviorPatterns(event)

SimulatorSpec == Init /\ [][SimulatorNext]_vars

\* ------------------------------------------------- evolve_traits, applied
EvolveTraitVectors ==
    {DefaultTrait,
     [DefaultTrait EXCEPT !.confidence = 100, !.openness = 99],
     [DefaultTrait EXCEPT !.openness = 150, !.neuroticism = -20],
     [DefaultTrait EXCEPT !.confidence = NotNumber],
     [DefaultTrait EXCEPT !.creativity = 0, !.emotional_stability = 100]}
EvolveInteractionHistories ==
    {<<>>, <<[outcome |-> "positive"]>>, <<[outcome |-> "negative"]>>}
EvolveLearningHistories == {<<>>, <<[event |-> "learning"]>>}
EvolveElapsed == {0, 8 * SecondsPerDay}
EvolveInputs ==
    [current_traits : EvolveTraitVectors, interaction_history : EvolveInteractionHistories,
     learning_history : EvolveLearningHistories, elapsed : EvolveElapsed, applied : {0}]

EvolveInit ==
    /\ EngineInit /\ ComponentsInit
    /\ call \in {[fn |-> "evolve_traits", args |-> a, out |-> a.current_traits, done |-> FALSE] :
                    a \in EvolveInputs}

\* traits = personality_engine.evolve_traits(traits, interactions, learning, elapsed)
EvolveTraits(u) ==
    /\ call.fn = "evolve_traits" /\ call.args.applied < MaxApplications
    /\ call' = [call EXCEPT !.done = TRUE,
                            !.args.applied = @ + 1,
                            !.out = evolve_traits(call.out, call.args.interaction_history,
                                                  call.args.learning_history,
                                                  call.args.elapsed, u)]
    /\ UNCHANGED <<now, advances, twins, order, sched, ret, conv, reply, monitor, simulator>>

EvolveNext == \E u \in Draws : EvolveTraits(u)

EvolveSpec == EvolveInit /\ [][EvolveNext]_vars

\* ------------------------------------------------ the periodic self-updates
SelfUpdateLoops == {"health", "personality", "behavior"}
SelfUpdateUpdates ==
    {Updates(Absent, Dict([neuroticism |-> NotNumber]), Absent, Absent),
     Updates(Absent, Dict([extraversion |-> NotNumber]), Absent, Absent)}

SelfUpdateNext ==
    \/ Initialize
    \/ AdvanceClock(8 * SecondsPerDay)
    \/ Len(order) < 2 /\ (engines <=> order # <<>>)
          /\ create_twin(Config("T1", EmptyDict, EmptyDict), 0)
    \/ \E i \in DOMAIN twins, upd \in SelfUpdateUpdates : update_twin(i, upd)
    \/ \E l \in SelfUpdateLoops : LoopTick(l, 0)

SelfUpdateSpec == Init /\ [][SelfUpdateNext]_vars

\* ------------------------------------------- the conversation contexts
\* The engine instance all twins share: conv[Shared] takes the calls of both
\* paths, generate_response choosing the path by whether a loop is running.
Shared == "async"
ContextMessages == {{"hello"}, {"sad", "work"}, {"hobby", "good"}}

\* conversation_engine.generate_response(message=..., conversation_id=...)
GenerateResponse(path, message, sender, conversation_id, personality_traits, hour) ==
    /\ Len(conv[Shared].conversation_history) < MaxMessages
    /\ LET r == IF path = "sync"
                THEN _generate_response_sync(conv[Shared], message, sender, conversation_id,
                                             personality_traits, hour)
                ELSE _generate_response_async(conv[Shared], message, sender, conversation_id,
                                              personality_traits, hour)
       IN /\ conv' = [conv EXCEPT ![Shared] = r.engine]
          /\ reply' = [reply EXCEPT ![Shared] = r.result]
    /\ call' = [fn |-> "generate_response",
                args |-> [path |-> path, conversation_id |-> conversation_id],
                out |-> 0, done |-> TRUE]
    /\ UNCHANGED <<now, advances, twins, order, sched, ret, monitor, simulator>>

ContextNext ==
    \/ AdvanceClock(1)
    \/ \E path \in Paths, message \in ContextMessages, conversation_id \in ConversationIds :
          GenerateResponse(path, message, "user", conversation_id, DefaultTrait, 9)

ContextSpec == Init /\ [][ContextNext]_vars

\* ------------------------------------------------ the loops under faults
BackoffNext ==
    \/ Initialize
    \/ create_twin(Config("T1", EmptyDict, EmptyDict), 0)
    \/ \E l \in LoopNames : LoopTick(l, 0)
    \/ \E l \in LoopNames, k \in 0..MaxTwins : LoopTickRaises(l, k)
    \/ \E l \in LoopNames : LoopExit(l)
    \/ \E l \in LoopNames : DeliverCancel(l)
    \/ shutdown_begin
    \/ shutdown_resume

BackoffSpec == Init /\ [][BackoffNext]_vars

\* ------------------------------------------- twins on shared components
\* process_interaction of a conversation, through the conversation engine
\* all twins share: _handle_conversation runs in the event loop, so
\* generate_response takes the synchronous path, under the conversation id
\* "twin_<twin_id>_<sender>"; the history entry keeps the response.
process_conversation(twin_id, message) ==
    /\ twin_id \in DOMAIN twins /\ twins[twin_id].has_engines
    /\ Len(twins[twin_id].interaction_log) < MaxLog
    /\ Len(conv[Shared].conversation_history) < MaxMessages
    /\ LET data == [type |-> "conversation", sender |-> "user"]
           r == twin_process_interaction(twins[twin_id], data)
           g == _generate_response_sync(conv[Shared], message, data.sender,
                                        <<twin_id, data.sender>>,
                                        twins[twin_id].personality_traits, 9)
           entry == [conversation_id |-> <<twin_id, data.sender>>,
                     twin_response |-> g.result.response]
       IN /\ twins' = [twins EXCEPT ![twin_id] =
                          [r.twin EXCEPT !.conversation_history =
                               Append(twins[twin_id].conversation_history, entry)]]
          /\ conv' = [conv EXCEPT ![Shared] = g.engine]
          /\ reply' = [reply EXCEPT ![Shared] = g.result]
          /\ ret' = Ret("process_interaction", twin_id, r.res)
    /\ UNCHANGED <<now, advances, order, sched, monitor, simulator, call>>

IsolationUpdates == {Updates(Absent, Dict([extraversion |-> 80]), Absent, Absent)}
IsolationMessages == {{"hello"}, {"sad", "work"}}

IsolationNext ==
    \/ Initialize
    \/ engines /\ Len(order) < 2 /\ create_twin(Config("T1", EmptyDict, EmptyDict), 0)
    \/ \E i \in DOMAIN twins, upd \in IsolationUpdates : update_twin(i, upd)
    \/ \E i \in DOMAIN twins, message \in IsolationMessages :
          process_conversation(i, message)
    \/ \E l \in SelfUpdateLoops : task[l] = "created" /\ LoopTick(l, 0)

IsolationSpec == Init /\ [][IsolationNext]_vars

\* ------------------------------------------------ the loops and shutdown
ShutdownNext ==
    \/ Initialize
    \/ create_twin(Config("T1", EmptyDict, EmptyDict), 0)
    \/ \E l \in LoopNames, u \in Draws : LoopTick(l, u)
    \/ \E l \in LoopNames : LoopExit(l)
    \/ \E l \in LoopNames : DeliverCancel(l)
    \/ shutdown_begin
    \/ shutdown_resume

ShutdownSpec == Init /\ [][ShutdownNext]_vars

\* ------------------------------------------- trait and metric value ranges
RangeConfigs ==
    {Config("T1", EmptyDict, EmptyDict),
     Config("T1", [openness |-> 70, extraversion |-> 60, confidence |-> 90],
            [heart_rate |-> 75, stress_level |-> 40, energy_level |-> 80])}
RangeUpdates ==
    {Updates(Absent, Dict([extraversion |-> 80]), Dict([energy_level |-> 90]), Absent),
     Updates(Absent, Dict([openness |-> 150]), Absent, Absent),
     Updates(Absent, Absent, Dict([heart_rate |-> 200]), Absent),
     Updates(Absent, Dict([neuroticism |-> 100, confidence |-> 0]), Absent, Absent)}
ClockSteps == {2 * SecondsPerDay, 8 * SecondsPerDay}

RangeNext ==
    \/ Initialize
    \/ \E d \in ClockSteps : AdvanceClock(d)
    \/ \E c \in RangeConfigs, u \in Draws : twins = EmptyDict /\ create_twin(c, u)
    \/ \E i \in DOMAIN twins, upd \in RangeUpdates : update_twin(i, upd)
    \/ \E l \in {"health", "personality"}, u \in Draws : LoopTick(l, u)

RangeSpec == Init /\ [][RangeNext]_vars

\* ---------------------------------------------------------------- claims
DescUpdate == Updates(Dict([description |-> "x"]), Absent, Absent, Absent)

\* C1: the lifecycle of a twin. create_twin returns an id under which
\* get_twin finds a twin with the configured name; update_twin with a
\* profile description returns true and get_twin then shows the description;
\* delete_twin returns true and get_twin then returns null.
C1_Lifecycle ==
    [][/\ \A c \in LifecycleConfigs, id \in DOMAIN twins' :
            create_twin(c, 0) /\ ret'.id = id
                => ret'.res = "id" /\ get_twin(id)' # None
                   /\ get_twin(id)'.profile.name = c.name
       /\ \A c \in LifecycleConfigs : create_twin(c, 0) => ret'.id \in DOMAIN twins'
       /\ \A id \in DOMAIN twins :
            /\ update_twin(id, DescUpdate)
                => ret'.res = "true" /\ get_twin(id)'.profile.description = "x"
            /\ delete_twin(id) => ret'.res = "true" /\ get_twin(id)' = None]_vars

C1_Witness ==
    /\ ret.op = "delete_twin" /\ ret.res = "true"
    /\ get_twin(ret.id) = None
    /\ twins # EmptyDict

\* C2: the id create_twin returns is not the id of a twin in the registry,
\* and the registry grows by one entry per create.
C2_UniqueIds ==
    [][\A c \in LifecycleConfigs :
          create_twin(c, 0)
              => /\ ret'.id \notin DOMAIN twins
                 /\ Cardinality(DOMAIN twins') = Cardinality(DOMAIN twins) + 1]_vars

\* C3: with an id that is not in the registry, get_twin and get_twin_state
\* return null, update_twin and delete_twin false, process_interaction an
\* error map, and the registry and every twin stay as they were.
C3_UnknownId ==
    [][\A id \in Ids \ DOMAIN twins :
          /\ GetTwin(id) \/ get_twin_state(id) => ret'.res = "null"
          /\ delete_twin(id) \/ (\E upd \in LifecycleUpdates : update_twin(id, upd))
                => ret'.res = "false"
          /\ (\E d \in Interactions : process_interaction(id, d)) => ret'.res = "error"
          /\ ret'.id = id /\ ret'.op # "create_twin" /\ ret' # ret
                => twins' = twins /\ order' = order]_vars

C3_Witness ==
    /\ ret.op = "process_interaction" /\ ret.res = "error"
    /\ ret.id \notin DOMAIN twins
    /\ twins # EmptyDict

\* C5: when update_twin returns false for a twin of the registry, the twin's
\* profile, traits, health metrics and visual profile are what they were.
C5_UpdateAllOrNothing ==
    [][\A id \in DOMAIN twins, upd \in LifecycleUpdates :
          update_twin(id, upd) /\ ret'.res = "false"
              => /\ twins'[id].profile = twins[id].profile
                 /\ twins'[id].personality_traits = twins[id].personality_traits
                 /\ twins'[id].health_metrics = twins[id].health_metrics
                 /\ twins'[id].visual_profile = twins[id].visual_profile]_vars

\* C4: when the generator of a periodic self-update fails inside, the twin's
\* health metrics, traits and behavior patterns are what they were before.
C4_SelfUpdateAllOrNothing ==
    [][\A id \in DOMAIN twins, l \in {"health", "personality", "behavior"}, u \in Draws :
          LoopTick(l, u) /\ GeneratorFails(l, twins[id])
              => /\ twins'[id].health_metrics = twins[id].health_metrics
                 /\ twins'[id].personality_traits = twins[id].personality_traits
                 /\ twins'[id].behavior_patterns = twins[id].behavior_patterns]_vars

\* C6: every personality trait of every twin lies in [0,1].
C6_TraitsInRange ==
    \A id \in DOMAIN twins, t \in TraitNames :
        /\ twins[id].personality_traits[t] >= 0
        /\ twins[id].personality_traits[t] <= 100

\* C7: stress_level, energy_level and sleep_quality of every twin lie in
\* [0,1] and its heart_rate in [50,120].
C7_HealthInRange ==
    \A id \in DOMAIN twins :
        /\ \A k \in RangedHealthKeys :
              twins[id].health_metrics[k] >= 0 /\ twins[id].health_metrics[k] <= 100
        /\ twins[id].health_metrics.heart_rate >= 50
        /\ twins[id].health_metrics.heart_rate <= 120

C9_ShutdownStops ==
    /\ [](phase = "stopped" => ~running /\ \A l \in LoopNames : Done(task[l]))
    /\ [][phase = "stopped" => lastTick' = lastTick /\ task' = task]_vars
    /\ [][\A l \in LoopNames :
             task[l] = "cancelling" /\ task'[l] # "cancelling" => task'[l] = "cancelled"]_vars

C9_Witness ==
    /\ phase = "stopped"
    /\ lastTick.loop # "none"
    /\ \E l \in LoopNames : task[l] = "cancelled"
    /\ \E l \in LoopNames : task[l] = "finished"

\* C10: for a twin created with all engines set, process_interaction with a
\* conversation, a health_query or a behavior_request returns a result map,
\* never an error map.
C10_InteractionSucceeds ==
    [][\A id \in DOMAIN twins, d \in StatusInteractions :
          twins[id].has_engines /\ process_interaction(id, d) => ret'.res = "result"]_vars

\* C11: get_twin_state returns a state for every id of the registry, after
\* any create, update, interaction and background update, and null only for
\* an unknown id.
C11_StateNonNull ==
    [][\A id \in Ids :
          get_twin_state(id) => (ret'.res = "null" <=> id \notin DOMAIN twins)]_vars

\* C12: process_interaction with an unknown type, or with no type, returns a
\* normal result whose response is the "Unknown interaction type" payload
\* with the type given ("unknown" when there is none), and mood, activity,
\* energy, traits and metrics of the twin stay as they were.
C12_UnknownType ==
    [][\A id \in DOMAIN twins, d \in AllInteractions :
          (process_interaction(id, d)
           /\ InteractionType(d) \notin
                 {"conversation", "health_query", "behavior_request", "visual_update"})
          => /\ ret'.res = "result"
             /\ twin_process_interaction(twins[id], d).res = "result"
             /\ twin_process_interaction(twins[id], d).response =
                   [message |-> "Unknown interaction type",
                    type |-> IF "type" \in DOMAIN d THEN d.type ELSE "unknown"]
             /\ twins'[id].current_mood = twins[id].current_mood
             /\ twins'[id].current_activity = twins[id].current_activity
             /\ twins'[id].energy_level = twins[id].energy_level
             /\ twins'[id].personality_traits = twins[id].personality_traits
             /\ twins'[id].health_metrics = twins[id].health_metrics]_vars

C12_Witness ==
    /\ ret.op = "process_interaction" /\ ret.res = "result"
    /\ ret.id \in DOMAIN twins
    /\ twins[ret.id].has_engines
    /\ twins[ret.id].interaction_log # <<>>
    /\ twins[ret.id].interaction_log[Len(twins[ret.id].interaction_log)].type = "teleport"

\* C13: each process_interaction on a twin appends exactly one entry to the
\* twin's interaction_log, also when the handler fails and an error map is
\* returned; no step removes or reorders entries.
C13_InteractionLog ==
    /\ [][\A id \in DOMAIN twins, d \in AllInteractions :
             process_interaction(id, d)
             => /\ Len(twins'[id].interaction_log) = Len(twins[id].interaction_log) + 1
                /\ twins'[id].interaction_log[Len(twins'[id].interaction_log)].type =
                      InteractionType(d)]_vars
    /\ [][\A id \in DOMAIN twins \cap DOMAIN twins' :
             /\ Len(twins'[id].interaction_log) >= Len(twins[id].interaction_log)
             /\ SubSeq(twins'[id].interaction_log, 1, Len(twins[id].interaction_log)) =
                   twins[id].interaction_log]_vars

C13_Witness ==
    /\ ret.op = "process_interaction" /\ ret.res = "error"
    /\ ret.id \in DOMAIN twins
    /\ Len(twins[ret.id].interaction_log) = MaxLog
    /\ twins[ret.id].interaction_log[MaxLog].type = "behavior_request"

C15_SyncAsyncEquivalent ==
    reply["sync"].kind = "result"
    => /\ reply["async"].kind = "result"
       /\ reply["sync"].message_type = reply["async"].message_type
       /\ reply["sync"].sentiment = reply["async"].sentiment
       /\ reply["sync"].intent = reply["async"].intent
       /\ reply["sync"].selection = reply["async"].selection

C15_Witness ==
    /\ reply["sync"].kind = "result" /\ reply["async"].kind = "result"
    /\ Len(conv["sync"].conversation_history) = MaxMessages
    /\ reply["sync"].selection # 0
    /\ reply["sync"].message_type = "greeting"
    /\ conv["sync"].active_conversations[reply["sync"].conversation_id].mood #
          conv["async"].active_conversations[reply["async"].conversation_id].mood

C20_AlertsAppendOnly ==
    [][/\ Len(monitor'.health_alerts) >= Len(monitor.health_alerts)
       /\ SubSeq(monitor'.health_alerts, 1, Len(monitor.health_alerts)) =
             monitor.health_alerts]_vars

C20_Witness ==
    /\ call.fn = "get_health_alerts" /\ call.out = <<>>
    /\ Len(monitor.health_alerts) >= 2
    /\ monitor.biometric_history # <<>>
    /\ monitor.health_alerts[1].timestamp < now

\* C17: an event that matches an existing pattern (same type, context
\* similarity above 0.3, as stress_level 0.55 against a work_activity
\* pattern with environment "work" and stress_level 0.5) raises the
\* frequency of the first such pattern by 0.1, capped at 1.0, and adds no
\* pattern; an event that matches none (as stress_level 0.9 against that
\* pattern) appends exactly one pattern with frequency 0.1 and confidence
\* 0.3 and changes no existing pattern.
C17_PatternReconciliation ==
    [][\A event \in BehaviorEvents :
          UpdateBehaviorPatterns(event)
          => LET old == simulator.behavior_patterns
                 new == simulator'.behavior_patterns
                 example == [pattern_type |-> "work_activity",
                             context |-> [environment |-> Str("work"),
                                          stress_level |-> Num(50)]]
                 matching == {i \in 1..Len(old) :
                                 /\ old[i].pattern_type = event.event_type
                                 /\ ContextSimilarity(event, old[i]) > 3}
             IN /\ _matches_pattern(WorkEvent(Num(55)), example)
                /\ ~_matches_pattern(WorkEvent(Num(90)), example)
                /\ matching # {}
                      => /\ Len(new) = Len(old)
                         /\ \E first \in matching :
                               /\ \A j \in matching : first <= j
                               /\ new[first].frequency = Min(100, old[first].frequency + 10)
                               /\ \A i \in 1..Len(old) : i # first => new[i] = old[i]
                /\ matching = {}
                      => /\ Len(new) = Len(old) + 1
                         /\ SubSeq(new, 1, Len(old)) = old
                         /\ new[Len(new)].pattern_type = event.event_type
                         /\ new[Len(new)].frequency = 10
                         /\ new[Len(new)].confidence = 30]_vars

C17_Witness ==
    /\ simulator.is_initialized
    /\ \E i, j \in 1..Len(simulator.behavior_patterns) :
          /\ simulator.behavior_patterns[i].context = WorkEvent(Num(50)).context
          /\ simulator.behavior_patterns[i].frequency = 20
          /\ simulator.behavior_patterns[j].context = WorkEvent(Num(90)).context
          /\ simulator.behavior_patterns[j].frequency = 10
    /\ call.fn = "_update_behavior_patterns"

\* C18: evolve_traits with an empty interaction history, an empty learning
\* history and zero elapsed time returns exactly the trait values it was
\* given, whatever they are, and does so however many times it is applied.
C18_EvolveIdempotent ==
    (/\ call.fn = "evolve_traits"
     /\ call.args.interaction_history = <<>>
     /\ call.args.learning_history = <<>>
     /\ call.args.elapsed = 0)
    => call.out = call.args.current_traits

C18_Witness ==
    /\ call.fn = "evolve_traits" /\ call.done
    /\ call.args.applied = MaxApplications
    /\ call.args.interaction_history = <<>>
    /\ call.args.learning_history = <<>>
    /\ call.args.elapsed = 0
    /\ call.args.current_traits.openness = 150
    /\ call.out.openness = 150

\* C19: a pass of the health, personality or behavior loop calls the
\* self-update of every twin of the registry and reaches its sleep, also
\* when a generator fails inside a twin's method; a twin whose engine
\* references are absent comes out of the call with every field, the
\* last-update timestamps included, as it was.
C19_SelfUpdateGuarded ==
    [][\A l \in SelfUpdateLoops :
          LoopTick(l, 0)
          => /\ lastTick'.called = order
             /\ task'[l] = "sleeping"
             /\ DOMAIN twins' = DOMAIN twins
             /\ \A i \in DOMAIN twins : ~twins[i].has_engines => twins'[i] = twins[i]]_vars

C19_Witness ==
    /\ lastTick.loop = "health"
    /\ \E i, j \in DOMAIN twins :
          /\ i \in Elems(lastTick.called) /\ j \in Elems(lastTick.called)
          /\ ~twins[i].has_engines /\ twins[i].last_health_update < now
          /\ j \in lastTick.failed

\* C21: a conversation context appears only in the step that processes a
\* message for its id; once there it stays, its message_count and
\* last_activity never decrease and its start_time never changes, on
\* either path; a message for one id leaves the contexts of the other ids
\* as they were.
C21_ContextLifecycle ==
    /\ [](conv[Shared].conversation_history = <<>>
             => conv[Shared].active_conversations = EmptyDict)
    /\ [][\A c \in ConversationIds :
             LET old == conv[Shared].active_conversations
                 new == conv'[Shared].active_conversations
             IN /\ (c \notin DOMAIN old /\ c \in DOMAIN new)
                      => \E path \in Paths, message \in ContextMessages :
                            GenerateResponse(path, message, "user", c, DefaultTrait, 9)
                /\ c \in DOMAIN old
                      => /\ c \in DOMAIN new
                         /\ new[c].message_count >= old[c].message_count
                         /\ new[c].last_activity >= old[c].last_activity
                         /\ new[c].start_time = old[c].start_time
                /\ \A other \in ConversationIds \ {c}, path \in Paths, message \in ContextMessages :
                      GenerateResponse(path, message, "user", other, DefaultTrait, 9)
                      => /\ c \in DOMAIN new <=> c \in DOMAIN old
                         /\ c \in DOMAIN old => new[c] = old[c]]_vars

C21_Witness ==
    /\ call.fn = "generate_response" /\ call.args.conversation_id = "c1"
    /\ "c1" \in DOMAIN conv[Shared].active_conversations
    /\ conv[Shared].active_conversations["c1"].last_activity >
          conv[Shared].active_conversations["c1"].start_time
    /\ conv[Shared].active_conversations["c1"].message_count > 2

\* C27: a message of non-neutral sentiment processed for an existing
\* conversation id on the path a twin's conversation interaction takes
\* (_handle_conversation is a coroutine, so generate_response takes the
\* synchronous path) leaves the context's mood equal to that sentiment; a
\* neutral message leaves the mood as it was.
C27_MoodFollowsSentiment ==
    [][\A message \in ContextMessages, c \in ConversationIds :
          (/\ c \in DOMAIN conv[Shared].active_conversations
           /\ GenerateResponse("sync", message, "user", c, DefaultTrait, 9))
          => conv'[Shared].active_conversations[c].mood =
                IF _analyze_sentiment_rule_based(message) # "neutral"
                THEN _analyze_sentiment_rule_based(message)
                ELSE conv[Shared].active_conversations[c].mood]_vars

\* C28: the first message processed for a conversation id leaves its
\* message_count at 1 and every later message raises it by exactly one,
\* on either path.
C28_MessageCount ==
    [][\A path \in Paths, message \in ContextMessages, c \in ConversationIds :
          GenerateResponse(path, message, "user", c, DefaultTrait, 9)
          => conv'[Shared].active_conversations[c].message_count =
                IF c \in DOMAIN conv[Shared].active_conversations
                THEN conv[Shared].active_conversations[c].message_count + 1
                ELSE 1]_vars

\* C22: from the return of initialize() until shutdown() is called,
\* running is true and each of the four loops is live (created or asleep
\* between ticks, so its next loop check passes); a loop reads running as
\* false, and returns, only once shutdown has begun.
C22_LoopsLive ==
    /\ [](phase = "initialized"
             => running /\ \A l \in LoopNames : task[l] \in {"created", "sleeping"})
    /\ [][\A l \in LoopNames : LoopExit(l) => phase \in {"stopping", "stopped"}]_vars
    /\ [][\A l \in LoopNames :
             (phase = "initialized" /\ task[l] = "created" /\ task'[l] # "created")
             => task'[l] \in {"sleeping", "cancelling"}]_vars

C22_Witness ==
    /\ phase = "initialized" /\ running
    /\ \A l \in LoopNames : task[l] = "sleeping"
    /\ lastTick.loop = "data"

\* C23 (as the code has it): an exception raised during a tick of a loop is
\* caught and the loop sleeps its backoff, 10 seconds in the health,
\* personality and behavior loops and 60 seconds in the data regeneration
\* loop, and is then ready for another tick; a loop returns only when
\* running is false.
C23_BackoffPerLoop ==
    /\ [][\A l \in LoopNames, k \in 0..MaxTwins :
             LoopTickRaises(l, k)
             => /\ task'[l] = "sleeping" /\ running'
                /\ lastTick'.sleep = IF l = "data" THEN 60 ELSE 10]_vars
    /\ [][\A l \in LoopNames : LoopExit(l) => ~running]_vars

\* C23 (as stated): the backoff is 10 seconds in each of the four loops.
C23_BackoffTenSeconds ==
    [][\A l \in LoopNames, k \in 0..MaxTwins :
          LoopTickRaises(l, k) => task'[l] = "sleeping" /\ lastTick'.sleep = 10]_vars

C23_Witness ==
    /\ running
    /\ lastTick.loop = "data" /\ lastTick.sleep = 60
    /\ task["data"] = "sleeping"
    /\ \E i \in DOMAIN twins : twins[i].has_engines /\ twins[i].last_health_update = now

\* C24: process_interaction (a conversation through the shared engine)
\* and update_twin on one twin leave every field of every other
\* twin as it was, and what a periodic self-update makes of a twin depends
\* on that twin alone.
C24_TwinIsolation ==
    /\ [][\A i \in DOMAIN twins :
             (\/ \E upd \in IsolationUpdates : update_twin(i, upd)
              \/ \E message \in IsolationMessages : process_conversation(i, message))
             => /\ DOMAIN twins' = DOMAIN twins
                /\ \A j \in DOMAIN twins \ {i} : twins'[j] = twins[j]]_vars
    /\ [][\A l \in SelfUpdateLoops :
             LoopTick(l, 0)
             => \A j \in DOMAIN twins :
                   twins'[j] = CASE l = "health" -> update_health_metrics(twins[j], 0)
                                 [] l = "personality" -> evolve_personality(twins[j], 0)
                                 [] OTHER -> simulate_behavior(twins[j])]_vars

C24_Witness ==
    /\ ret.op = "update_twin" /\ ret.res = "true"
    /\ \E i, j \in DOMAIN twins :
          /\ i # j /\ ret.id = i
          /\ twins[i].has_engines /\ twins[j].has_engines
          /\ twins[i].personality_traits.extraversion = 80
          /\ twins[j].personality_traits.extraversion # 80
          /\ Len(twins[i].conversation_history) > 0
          /\ Len(twins[j].conversation_history) > 0

\* C25: when create_twin returns, every trait named in the config's
\* personality_profile and every metric named in its health_profile has
\* the value the caller gave.
C25_ProfileKept ==
    [][\A c \in RangeConfigs, u \in Draws :
          create_twin(c, u)
          => /\ \A k \in DOMAIN c.personality_profile :
                   twins'[ret'.id].personality_traits[k] = c.personality_profile[k]
             /\ \A k \in DOMAIN c.health_profile :
                   twins'[ret'.id].health_metrics[k] = c.health_profile[k]]_vars

\* C26: for every template, the context match is the mean, over all the
\* requirements the template declares, of 1 for a satisfied requirement and
\* 0 for an unsatisfied one, topic and sentiment requirements included.
C26_ContextMatchAverage ==
    (call.fn = "_find_response_template" /\ call.done)
    => \A i \in 1..Len(response_templates) :
          LET req == response_templates[i].context_requirements
              hour == call.args.hour
              satisfied(r) ==
                  CASE r = "time_of_day" ->
                          \/ req[r] = "morning" /\ 6 <= hour /\ hour <= 11
                          \/ req[r] = "afternoon" /\ 12 <= hour /\ hour <= 17
                          \/ req[r] = "evening" /\ 18 <= hour /\ hour <= 21
                          \/ req[r] = "night" /\ (22 <= hour \/ hour <= 5)
                    [] r = "topic" -> call.args.context.topic = req[r]
                    [] r = "sentiment" -> call.args.message.sentiment = req[r]
                    [] OTHER -> Abs(call.args.context.energy_level - req[r]) < 20
              score == [r \in DOMAIN req |-> IF satisfied(r) THEN 100 ELSE 0]
          IN _calculate_context_match(response_templates[i], call.args.context,
                                      call.args.message, hour)
                = Mean2(SumOver(score, DOMAIN req), Cardinality(DOMAIN req))

\* C29: every reading generate_biometric_reading has produced has its
\* stress_level, energy_level and sleep_quality within [0, 1].
C29_DerivedInRange ==
    \A i \in 1..Len(monitor.biometric_history) :
        \A k \in {"stress_level", "energy_level", "sleep_quality"} :
            /\ 0 <= monitor.biometric_history[i][k]
            /\ monitor.biometric_history[i][k] <= 100

\* C30: no two alerts of health_alerts share an alert_id.
C30_AlertIdsUnique ==
    \A i, j \in 1..Len(monitor.health_alerts) :
        i # j => monitor.health_alerts[i].alert_id # monitor.health_alerts[j].alert_id

====
